---- MODULE Spec2Model ----
(***************************************************************************)
(* Model of src/main.py: a LINE webhook that grounds a user message with   *)
(* Azure Cognitive Search, asks Azure OpenAI for a completion and replies. *)
(*                                                                         *)
(* Text is modelled as a sequence of tokens.  The tokens the code looks    *)
(* for keep their own identity ("Error", "sku_code", ":", the newline NL,  *)
(* the blank SP and the three Thai keywords); every other fixed string of  *)
(* the source is one opaque token named after its source line.             *)
(***************************************************************************)
EXTENDS Naturals, Sequences, FiniteSets

\* ------------------------------------------------------------------ bounds
MaxRequests == 4      \* requests received in all, two users
MaxSoloRequests == 6  \* requests received in all, one user

Users == {"u", "v"}

\* ------------------------------------------------------------ text helpers
NL == "NL"
SP == "SP"

\* Python's `needle in text` for a one-token needle.
Contains(text, tok) == \E i \in 1..Len(text) : text[i] = tok

FirstIndex(text, tok) == CHOOSE i \in 1..Len(text) :
                            text[i] = tok /\ \A j \in 1..(i-1) : text[j] # tok

\* Python's text.split(sep): the pieces between the separators, empty pieces kept.
RECURSIVE Split(_, _)
Split(text, sep) ==
    IF ~Contains(text, sep) THEN <<text>>
    ELSE LET i == FirstIndex(text, sep)
         IN  <<SubSeq(text, 1, i-1)>> \o Split(SubSeq(text, i+1, Len(text)), sep)

IsSpace(tok) == tok \in {SP, NL}

\* Python's text.strip(): leading and trailing whitespace removed.
RECURSIVE Strip(_)
Strip(text) ==
    IF text = <<>> THEN <<>>
    ELSE IF IsSpace(text[1]) THEN Strip(Tail(text))
    ELSE IF IsSpace(text[Len(text)]) THEN Strip(SubSeq(text, 1, Len(text)-1))
    ELSE text

\* Python's sep.join(list).
RECURSIVE Join(_, _)
Join(list, sep) ==
    IF list = <<>> THEN <<>>
    ELSE IF Len(list) = 1 THEN list[1]
    ELSE list[1] \o sep \o Join(Tail(list), sep)

\* Python's None, and the truth value of an optional text (None and "" are falsy).
None == <<"None">>
Truthy(x) == x # None /\ x # <<>>

\* ------------------------------------------------------- fixed strings
RESET_CMD            == <<"RESET_CMD">>                 \* main.py:111
MSG_PROMPT_MORE      == <<"MSG_PROMPT_MORE">>           \* main.py:113
KW_PRODUCT           == "KW_PRODUCT"                    \* main.py:118
KW_PROBLEM           == "KW_PROBLEM"                    \* main.py:120
KW_FIX               == "KW_FIX"                        \* main.py:120
MSG_PRODUCT_NOT_FOUND == <<"MSG_NO_PRODUCT_DATA", KW_PRODUCT, "MSG_RETRY_WITH_CODE">>  \* main.py:119
MSG_CONTACT_SUPPORT  == <<"MSG_NO_SOLUTION", KW_FIX, "MSG_CONTACT_STAFF">>             \* main.py:121
MSG_NOT_FOUND        == <<"MSG_NOT_FOUND">>             \* main.py:123 and main.py:203
MSG_APOLOGY          == <<"MSG_SORRY_SYSTEM", KW_PROBLEM, "MSG_AZURE_OPENAI">>         \* main.py:171
MSG_WELCOME          == <<"MSG_WELCOME">>               \* main.py:95-98
SEARCH_ERROR_PREFIX  == <<"MSG_SORRY_NO_DATA", ":", SP>> \* main.py:206
SKU_CONTEXT_PREFIX   == <<NL, NL, "MSG_LAST_SKU", ":", SP>>  \* main.py:131
PRODUCT_TAG          == <<"PRODUCT_TAG", SP>>           \* main.py:197
HELPDESK_TAG         == <<"HELPDESK_TAG", SP>>          \* main.py:199
system_message       == <<"SYSTEM_TXT">>                \* main.py:50

\* ------------------------------------------------------------- inputs
\* Texts a user can send.
UserMessages == {
    RESET_CMD,
    RESET_CMD \o <<SP, "please">>,
    <<"hello">>,
    <<"hello", KW_PRODUCT>>,
    <<KW_PROBLEM, "with", KW_PRODUCT>>,
    <<"how", KW_FIX>> }

\* Documents of the search index (the dictionaries search_client.search yields).
DocA1    == [document_type |-> "Product",  title |-> <<"T1">>,
             chunk |-> <<"sku_code", ":", SP, "A1">>]
DocB2    == [document_type |-> "Product",  title |-> <<"T2">>,
             chunk |-> <<"w", NL, "sku_code", ":", SP, "B2", SP>>]
DocFaq   == [document_type |-> "HelpDesk", title |-> <<"T3">>, chunk |-> <<"w">>]
DocErr   == [document_type |-> "Manual",   title |-> <<"Error", SP, "E4">>, chunk |-> <<"w">>]
DocNoCol == [document_type |-> "Manual",   title |-> <<"T5">>, chunk |-> <<"sku_code", SP, "list">>]

\* What one call of search_client.search can do: raise with a text, or yield documents.
Raise(e)  == [kind |-> "raise", e |-> e, results |-> <<>>]
Yield(rs) == [kind |-> "ok", e |-> <<>>, results |-> rs]

SearchOutcomes == {
    Raise(<<"timeout">>),
    Raise(<<"Http", "Error", "503">>),
    Raise(<<"no", "field", "sku_code">>),
    Yield(<<>>),
    Yield(<<DocA1>>),
    Yield(<<DocFaq>>),
    Yield(<<DocFaq, DocB2>>),
    Yield(<<DocB2, DocA1>>),
    Yield(<<DocErr, DocA1>>),
    Yield(<<DocNoCol>>) }

\* What one call of client.chat.completions.create can do.
MODEL_REPLY == <<"MODEL_REPLY">>
CompletionOutcomes == {"raise", "falsy", "ok"}

\* ------------------------------------------------------------- state
\* callback is a coroutine that calls handler.handle without awaiting (main.py:81-90)
\* and the process runs one event loop (main.py:210-212), so one request is handled
\* at a time, start to end; requests of different users follow each other in any order.
VARIABLES
    session_memory,     \* main.py:54, a dict: a function whose DOMAIN is the set of keys
    pc,                 \* the collaborator call the running request is blocked in
    request,            \* the inbound /callback request
    user_id,            \* event.source.user_id of the running (or latest) request
    user_message,       \* handle_message's local
    grounding_message,  \* handle_message's local
    sku_context,        \* handle_message's local
    messages,           \* the messages handed to client.chat.completions.create
    reply_message,      \* handle_message's local
    response,           \* the HTTP response of the latest request
    trace,              \* collaborator calls made for the latest dispatched event
    handled,            \* per user: non-reset messages dispatched since the last reset
    lastFound,          \* per user: sku_code of the latest successful search that had one
    extracted,          \* per user: every sku taken from the user's own search returns
    nreq                \* requests received so far

vars == <<session_memory, pc, request, user_id, user_message, grounding_message,
          sku_context, messages, reply_message, response, trace, handled, lastFound,
          extracted, nreq>>

locals == <<user_message, grounding_message, sku_context, messages, reply_message>>

R_NONE == "in flight"
R_OK   == "200 OK"
R_400  == "400 Invalid signature"
R_500  == "500 Internal Server Error"

NoUser == "nobody"
NoRequest == [valid |-> FALSE, kind |-> "none", text |-> <<>>]

Requests ==
    [valid : BOOLEAN, kind : {"follow"}, text : {<<>>}]
    \cup [valid : BOOLEAN, kind : {"message"}, text : UserMessages]

EmptyTrace == [kind |-> "none", text |-> <<>>, search |-> "none", completion |-> "none",
               replies |-> <<>>]

\* ----------------------------------------------------- session memory
\* Mutant: the entry is read but not removed.
Pop_Forgotten(mem, uid) == mem

\* session_memory.pop(user_id, None)
Pop(mem, uid) == [k \in (DOMAIN mem) \ {uid} |-> mem[k]]

\* Mutant: one slot shared by every user instead of one per user_id.
update_sku_code_SharedSlot(mem, uid, sku_code) ==
    [k \in (DOMAIN mem) \cup {uid} |-> sku_code]

update_sku_code(mem, uid, sku_code) ==
    [k \in (DOMAIN mem) \cup {uid} |-> IF k = uid THEN sku_code ELSE mem[k]]

get_last_sku_code(mem, uid) ==
    IF uid \in DOMAIN mem THEN mem[uid] ELSE None

\* ------------------------------------------------------ sku extraction
SkuLines(text) == LET lines == Split(text, NL)
                  IN  SelectSeq(lines, LAMBDA line : Contains(line, "sku_code"))

\* line.split(":")[1] raises IndexError when the first sku_code line has no colon.
ExtractRaises(text) ==
    /\ SkuLines(text) # <<>>
    /\ Len(Split(SkuLines(text)[1], ":")) < 2

extract_sku_from_text(text) ==
    IF SkuLines(text) = <<>> THEN None
    ELSE Strip(Split(SkuLines(text)[1], ":")[2])

\* ------------------------------------------------------------- search
Render(result) ==
    IF result.document_type = "Product"
      THEN PRODUCT_TAG \o result.title \o <<NL>> \o result.chunk
    ELSE IF result.document_type = "HelpDesk"
      THEN HELPDESK_TAG \o result.title \o <<NL>> \o result.chunk
    ELSE result.title \o <<NL>> \o result.chunk

search_documents(outcome) ==
    IF outcome.kind = "raise" THEN << SEARCH_ERROR_PREFIX \o outcome.e >>
    ELSE LET documents == [i \in 1..Len(outcome.results) |-> Render(outcome.results[i])]
         IN  IF documents # <<>> THEN documents ELSE << MSG_NOT_FOUND >>

\* How the search went, as the collaborator saw it.
SearchKind(outcome) ==
    IF outcome.kind = "raise" THEN "raise"
    ELSE IF outcome.results = <<>> THEN "empty" ELSE "ok"

\* ---------------------------------------------------- handle_message
\* Mutant: the reset command compared with a mistyped literal.
IsReset_Mistyped(text) == text = <<"RESET">>

IsReset(text) == text = RESET_CMD

NoResults(search_results) ==
    search_results = <<>> \/ Contains(search_results[1], "Error")

FallbackGrounding(text) ==
    IF Contains(text, KW_PRODUCT) THEN MSG_PRODUCT_NOT_FOUND
    ELSE IF Contains(text, KW_PROBLEM) \/ Contains(text, KW_FIX) THEN MSG_CONTACT_SUPPORT
    ELSE MSG_NOT_FOUND

GroundingMessage(text, search_results) ==
    IF NoResults(search_results) THEN FallbackGrounding(text)
    ELSE Join(search_results, <<NL, NL>>)

\* Lines 124-128 raise when extract_sku_from_text does.
SearchBranchRaises(search_results) ==
    /\ ~NoResults(search_results)
    /\ ExtractRaises(Join(search_results, <<NL, NL>>))

\* found_sku_code of line 126; None on the branch that does not extract.
FoundSku(search_results) ==
    IF NoResults(search_results) THEN None
    ELSE extract_sku_from_text(Join(search_results, <<NL, NL>>))

\* session_memory after lines 117-128.
MemoryAfterSearch(mem, uid, search_results) ==
    IF Truthy(FoundSku(search_results))
      THEN update_sku_code(mem, uid, FoundSku(search_results))
      ELSE mem

\* Mutant: the hint is never appended to the system instruction.
SkuContext_Dropped(last_sku_code) == <<>>

SkuContext(last_sku_code) ==
    IF Truthy(last_sku_code) THEN SKU_CONTEXT_PREFIX \o last_sku_code ELSE <<>>

\* Mutant: the grounding of the previous turn is sent along as an earlier turn.
Messages_WithEarlierTurn(context, text, grounding) ==
    << [role |-> "system",    content |-> system_message \o context],
       [role |-> "assistant", content |-> MSG_NOT_FOUND],
       [role |-> "user",      content |-> text],
       [role |-> "assistant", content |-> grounding] >>

Messages(context, text, grounding) ==
    << [role |-> "system",    content |-> system_message \o context],
       [role |-> "user",      content |-> text],
       [role |-> "assistant", content |-> grounding] >>

ReplyOf(result) == IF result = "ok" THEN MODEL_REPLY ELSE MSG_APOLOGY

ClearLocals ==
    /\ user_message' = <<>>
    /\ grounding_message' = <<>>
    /\ sku_context' = <<>>
    /\ messages' = <<>>
    /\ reply_message' = <<>>

Init ==
    /\ session_memory = << >>
    /\ pc = "idle"
    /\ request = NoRequest
    /\ user_id = NoUser
    /\ user_message = <<>>
    /\ grounding_message = <<>>
    /\ sku_context = <<>>
    /\ messages = <<>>
    /\ reply_message = <<>>
    /\ response = R_NONE
    /\ trace = EmptyTrace
    /\ handled = [u \in Users |-> 0]
    /\ lastFound = [u \in Users |-> None]
    /\ extracted = [u \in Users |-> {}]
    /\ nreq = 0

\* The platform posts a webhook request for user u to /callback.
Arrive(u, req, limit) ==
    /\ pc = "idle"
    /\ nreq < limit
    /\ nreq' = nreq + 1
    /\ request' = req
    /\ user_id' = u
    /\ response' = R_NONE
    /\ trace' = EmptyTrace
    /\ pc' = "received"
    /\ UNCHANGED <<session_memory, locals, handled, lastFound, extracted>>

Receive(u, req) == Arrive(u, req, MaxRequests)

\* Mutant: the signature is not checked.
SignatureOK_Unchecked(req) == TRUE

\* handler.handle's signature check, done before any event is dispatched.
SignatureOK(req) == req.valid

\* callback, lines 85-88: InvalidSignatureError becomes HTTP 400.
CallbackInvalidSignature ==
    /\ pc = "received"
    /\ ~SignatureOK(request)
    /\ response' = R_400
    /\ pc' = "idle"
    /\ UNCHANGED <<session_memory, request, user_id, locals, trace, handled, lastFound,
                   extracted, nreq>>

\* callback dispatching a FollowEvent: handle_follow, up to its reply call.
HandleFollow ==
    /\ pc = "received"
    /\ SignatureOK(request)
    /\ request.kind = "follow"
    /\ reply_message' = MSG_WELCOME
    /\ trace' = [EmptyTrace EXCEPT !.kind = "follow", !.replies = <<MSG_WELCOME>>]
    /\ pc' = "reply"
    /\ UNCHANGED <<session_memory, request, user_id, user_message, grounding_message,
                   sku_context, messages, response, handled, lastFound, extracted, nreq>>

\* callback dispatching a text MessageEvent: handle_message, lines 108-115, up to
\* the first collaborator call (the reply on the reset branch, the search otherwise).
HandleMessage ==
    /\ pc = "received"
    /\ SignatureOK(request)
    /\ request.kind = "message"
    /\ user_message' = request.text
    /\ IF IsReset(request.text)
         THEN /\ session_memory' = Pop(session_memory, user_id)
              /\ reply_message' = MSG_PROMPT_MORE
              /\ trace' = [EmptyTrace EXCEPT !.kind = "message", !.text = request.text,
                                             !.replies = <<MSG_PROMPT_MORE>>]
              /\ pc' = "reply"
              /\ handled' = [handled EXCEPT ![user_id] = 0]
              /\ lastFound' = [lastFound EXCEPT ![user_id] = None]
         ELSE /\ trace' = [EmptyTrace EXCEPT !.kind = "message", !.text = request.text,
                                             !.search = "pending"]
              /\ pc' = "search"
              /\ handled' = [handled EXCEPT ![user_id] = @ + 1]
              /\ UNCHANGED <<session_memory, reply_message, lastFound>>
    /\ UNCHANGED <<request, user_id, grounding_message, sku_context, messages, response,
                   extracted, nreq>>

\* The sku_code the search results carry, when the search succeeded and they carry one.
ResultSku(outcome) ==
    IF SearchKind(outcome) # "ok" THEN None
    ELSE LET text == Join(search_documents(outcome), <<NL, NL>>)
         IN  IF ExtractRaises(text) THEN None ELSE extract_sku_from_text(text)

\* search_documents returns; handle_message runs lines 117-134 and calls the
\* completion collaborator.
SearchReturns(outcome) ==
    LET search_results == search_documents(outcome)
        mem == MemoryAfterSearch(session_memory, user_id, search_results)
        last_sku_code == get_last_sku_code(mem, user_id)
        grounding == GroundingMessage(user_message, search_results)
    IN  /\ pc = "search"
        /\ ~SearchBranchRaises(search_results)
        /\ session_memory' = mem
        /\ grounding_message' = grounding
        /\ sku_context' = SkuContext(last_sku_code)
        /\ messages' = Messages(SkuContext(last_sku_code), user_message, grounding)
        /\ trace' = [trace EXCEPT !.search = SearchKind(outcome), !.completion = "pending"]
        /\ lastFound' = [lastFound EXCEPT ![user_id] =
                           IF Truthy(ResultSku(outcome)) THEN ResultSku(outcome) ELSE @]
        /\ extracted' = [extracted EXCEPT ![user_id] =
                           IF Truthy(FoundSku(search_results))
                             THEN @ \cup {FoundSku(search_results)} ELSE @]
        /\ pc' = "complete"
        /\ UNCHANGED <<request, user_id, user_message, reply_message, response, handled,
                       nreq>>

\* search_documents returns and extract_sku_from_text raises IndexError: nothing
\* catches it, the request ends 500.
SearchReturnsAndRaises(outcome) ==
    /\ pc = "search"
    /\ SearchBranchRaises(search_documents(outcome))
    /\ trace' = [trace EXCEPT !.search = SearchKind(outcome)]
    /\ response' = R_500
    /\ pc' = "idle"
    /\ ClearLocals
    /\ UNCHANGED <<session_memory, request, user_id, handled, lastFound, extracted, nreq>>

\* client.chat.completions.create returns a completion (or a falsy value):
\* line 171, then the reply call of lines 174-177.
CompletionReturns(result) ==
    /\ pc = "complete"
    /\ result \in {"ok", "falsy"}
    /\ reply_message' = ReplyOf(result)
    /\ trace' = [trace EXCEPT !.completion = result,
                              !.replies = Append(@, ReplyOf(result))]
    /\ pc' = "reply"
    /\ UNCHANGED <<session_memory, request, user_id, user_message, grounding_message,
                   sku_context, messages, response, handled, lastFound, extracted, nreq>>

\* client.chat.completions.create raises: handle_message has no try, callback
\* catches only InvalidSignatureError, so the request ends 500 with no reply.
CompletionRaises ==
    /\ pc = "complete"
    /\ trace' = [trace EXCEPT !.completion = "raise"]
    /\ response' = R_500
    /\ pc' = "idle"
    /\ ClearLocals
    /\ UNCHANGED <<session_memory, request, user_id, handled, lastFound, extracted, nreq>>

\* line_bot_api.reply_message returns (callback answers "OK") or raises (500).
ReplyReturns(ok) ==
    /\ pc = "reply"
    /\ response' = IF ok THEN R_OK ELSE R_500
    /\ pc' = "idle"
    /\ ClearLocals
    /\ UNCHANGED <<session_memory, request, user_id, trace, handled, lastFound, extracted,
                   nreq>>

Next ==
    \/ \E u \in Users : \E req \in Requests : Receive(u, req)
    \/ CallbackInvalidSignature
    \/ HandleFollow
    \/ HandleMessage
    \/ \E outcome \in SearchOutcomes : SearchReturns(outcome)
    \/ \E outcome \in SearchOutcomes : SearchReturnsAndRaises(outcome)
    \/ \E result \in CompletionOutcomes : CompletionReturns(result)
    \/ CompletionRaises
    \/ \E ok \in BOOLEAN : ReplyReturns(ok)

Spec == Init /\ [][Next]_vars

\* One user sending a longer run of requests.
ReceiveSolo(req) == Arrive("u", req, MaxSoloRequests)

NextSolo ==
    \/ \E req \in Requests : ReceiveSolo(req)
    \/ CallbackInvalidSignature
    \/ HandleFollow
    \/ HandleMessage
    \/ \E outcome \in SearchOutcomes : SearchReturns(outcome)
    \/ \E outcome \in SearchOutcomes : SearchReturnsAndRaises(outcome)
    \/ \E result \in CompletionOutcomes : CompletionReturns(result)
    \/ CompletionRaises
    \/ \E ok \in BOOLEAN : ReplyReturns(ok)

SpecSolo == Init /\ [][NextSolo]_vars

\* ------------------------------------------------------------ properties
Min(a, b) == IF a < b THEN a ELSE b

\* The entry session_memory holds under a key: <<value>>, or <<>> when the key is absent.
EntryOf(mem, uid) == IF uid \in DOMAIN mem THEN <<mem[uid]>> ELSE <<>>

\* The turns of a completion call that lie between its system turn and the turns
\* of the message being handled (the user turn and the assistant turn).
PriorTurns(msgs) == SubSeq(msgs, 2, Len(msgs) - 2)

\* C1: handling a text message equal to the reset command clears the sender's
\* session entry, sends exactly one reply, the fixed prompt for more detail, and
\* calls neither the search nor the completion collaborator.
C1_ResetBypassesGrounding ==
    (trace.kind = "message" /\ trace.text = RESET_CMD) =>
        /\ user_id \notin DOMAIN session_memory
        /\ trace.search = "none"
        /\ trace.completion = "none"
        /\ messages = <<>>
        /\ trace.replies = <<MSG_PROMPT_MORE>>
        /\ pc \in {"reply", "idle"}

C1_Witness ==
    /\ trace.text = RESET_CMD
    /\ pc = "idle"
    /\ response = R_OK
    /\ extracted[user_id] # {}
    /\ nreq = 2

\* C2 (as claimed): when the completion call of a non-reset message raises, a
\* reply is still sent and its text is the fixed apology.
C2_ApologyOnCompletionFailure ==
    trace.completion = "raise" => trace.replies = <<MSG_APOLOGY>>

\* C3 (as claimed): when the search collaborator raises, the grounding handed to
\* the completion call is the fixed fallback chosen by keyword, never the error text.
C3_FallbackOnSearchFailure ==
    (pc = "complete" /\ trace.search = "raise") =>
        /\ grounding_message = FallbackGrounding(request.text)
        /\ messages[3].content = FallbackGrounding(request.text)

\* C4 (as claimed): when the search succeeds with zero results, the grounding is
\* the keyword table's message for the first matching keyword, and the generic
\* fallback only when no keyword matches.
C4_KeywordFallbackOnEmptyResults ==
    (pc = "complete" /\ trace.search = "empty") =>
        messages[3].content =
            IF Contains(request.text, KW_PRODUCT) THEN MSG_PRODUCT_NOT_FOUND
            ELSE IF Contains(request.text, KW_PROBLEM) \/ Contains(request.text, KW_FIX)
              THEN MSG_CONTACT_SUPPORT
            ELSE MSG_NOT_FOUND

\* C5: a /callback request whose signature verification fails is answered 400
\* "Invalid signature" and nothing else happens: no handler runs, session_memory
\* is unchanged and no search, completion or reply call is issued.
C5_InvalidSignatureRejected ==
    [][ (pc = "received" /\ ~request.valid) =>
          /\ response' = R_400
          /\ pc' = "idle"
          /\ session_memory' = session_memory
          /\ trace' = EmptyTrace
          /\ UNCHANGED <<locals, handled>>
          /\ messages' = <<>> /\ reply_message' = <<>> ]_vars

C5_Witness ==
    /\ response = R_400
    /\ request.kind = "message"
    /\ session_memory # << >>

C7_ResetThenGetIsNone ==
    [][ (pc = "received" /\ pc' = "reply" /\ request.kind = "message"
         /\ request.text = RESET_CMD) =>
          /\ get_last_sku_code(session_memory', user_id) = None
          /\ Pop(session_memory', user_id) = session_memory'
          /\ \A w \in Users \ {user_id} :
                EntryOf(session_memory', w) = EntryOf(session_memory, w) ]_vars

C7_Witness ==
    /\ pc = "reply"
    /\ trace.text = RESET_CMD
    /\ nreq = 2
    /\ extracted[user_id] # {}
    /\ user_id \notin DOMAIN session_memory

\* C8: requests of two users never contaminate each other: the hint in the system
\* turn of a user's completion call is absent or a sku extracted from that user's
\* own search returns, and a step of one user never adds, changes or removes the
\* other user's entry of session_memory.
C8_NoCrossContamination ==
    [][ /\ \A w \in Users : w # user_id' =>
              EntryOf(session_memory', w) = EntryOf(session_memory, w)
        /\ pc' = "complete" =>
              \/ messages'[1].content = system_message
              \/ \E sku \in extracted'[user_id'] :
                    messages'[1].content = system_message \o SKU_CONTEXT_PREFIX \o sku ]_vars

C8_Witness ==
    /\ pc = "complete"
    /\ messages[1].content # system_message
    /\ \E w \in DOMAIN session_memory :
          w # user_id /\ session_memory[w] # session_memory[user_id]

C10_HintIsLatestResultSku ==
    pc = "complete" => sku_context = SkuContext(lastFound[user_id])

====
